---- MODULE Spec2Model ----
(***************************************************************************)
(* Model of the dithering and packing code of epub2images.py:              *)
(*   dither        error diffusion over a greyscale buffer (lines 41-64)   *)
(*   dither_bayer  ordered dithering against the bayer matrix (67-84)      *)
(*   main          the loop that merges four 2-bit values into one byte    *)
(*                 (lines 201-207)                                         *)
(*                                                                         *)
(* dither works on float64 samples.  The model computes them as the        *)
(* program does: every sample, kernel weight and error is a binary64       *)
(* number, and every /, *, + and - rounds its exact result to the nearest  *)
(* binary64 number, a tie going to the even mantissa.  A number is the     *)
(* record [s, m, e] that stands for s * m * 2^e: s is the sign (-1, 0, 1), *)
(* e the exponent and m the mantissa, a natural number of 53 bits written  *)
(* as the sequence of its base-2^14 digits, the least significant first    *)
(* (1.0 is [s |-> 1, m |-> <<0, 0, 0, 1024>>, e |-> -52]).  0.0 and -0.0   *)
(* are one number; no operation of a run overflows or underflows.          *)
(***************************************************************************)
EXTENDS Integers, Sequences, FiniteSets, TLC

VARIABLES
    \* dither(px, matrix)
    matrix,        \* name of the kernel passed as matrix
    weights,       \* the array passed as matrix
    shape,         \* px.shape = <<rows, columns>>
    px_in,         \* the caller's buffer (integers 0..255)
    dpx,           \* dither's local px after px = px / 255
    di, dj,        \* the loop indices i, j
    dpc,           \* "call", "loop", "done" (returned) or "error" (raised)
    dret,          \* the returned buffer px * 255
    sumErr,        \* history: sum of err over the pixels visited
    sumIn,         \* history: sum of what line 62 added to px
    sumOut,        \* history: sum of err * weight of kernel cells off the buffer
    \* dither_bayer(px)
    thresholds,    \* name of the threshold matrix
    bshape,        \* px.shape
    bpx,           \* the argument px
    o_px,          \* the output buffer
    bdone,         \* positions whose pixel has been processed
    \* main: merging four bytes into one
    im_bytes,      \* the byte string being read
    im_bytearray,  \* the bytes appended so far
    pk,            \* the loop index k
    ppc,           \* "loop", "done" or "error" (IndexError)
    written        \* what file.write received

dvars == <<matrix, weights, shape, px_in, dpx, di, dj, dpc, dret, sumErr, sumIn, sumOut>>
bvars == <<thresholds, bshape, bpx, o_px, bdone>>
pvars == <<im_bytes, im_bytearray, pk, ppc, written>>
vars == <<dvars, bvars, pvars>>

\* ------------------------------------------------------------------ bounds
MaxH == 2
MaxW == 4
MaxPixels == 4
MaxLen == 8

\* Sample values a pixel of an input buffer of dither is drawn from, and
\* those of an input buffer of dither_bayer (8-bit greys).
Samples == {100, 128, 255}
BayerSamples == {0, 100, 128, 255}

\* More input buffers, <<shape, samples>>: the error diffused into one of
\* their pixels brings it to one half or next to it, so that what round makes
\* of the pixel depends on the way every float operation before has rounded.
TieBuffers ==
    { <<<<1, 3>>, <<239, 229, 133>>>>,
      <<<<1, 3>>, <<175, 54, 132>>>>,
      <<<<1, 4>>, <<207, 237, 252, 132>>>>,
      <<<<1, 4>>, <<247, 164, 140, 138>>>>,
      <<<<2, 2>>, <<112, 254, 251, 88>>>>,
      <<<<2, 2>>, <<48, 193, 164, 140>>>>,
      <<<<2, 3>>, <<135, 7, 0, 0, 0, 135>>>>,
      <<<<2, 3>>, <<223, 38, 115, 133, 196, 60>>>>,
      <<<<1, 2>>, <<8, 124>>>>,
      <<<<1, 3>>, <<255, 100, 115>>>>,
      <<<<2, 3>>, <<100, 128, 255, 128, 100, 255>>>>,
      <<<<2, 3>>, <<128, 128, 128, 128, 128, 128>>>>,
      <<<<2, 3>>, <<255, 100, 100, 128, 255, 100>>>>,
      <<<<3, 2>>, <<128, 100, 255, 100, 128, 255>>>>,
      <<<<3, 2>>, <<100, 100, 128, 128, 255, 255>>>>,
      <<<<3, 3>>, <<100, 128, 255, 128, 100, 255, 255, 128, 100>>>> }

Max(a, b) == IF a > b THEN a ELSE b
Min(a, b) == IF a < b THEN a ELSE b

\* ------------------------------------------------------ natural numbers
\* A natural number is the sequence of its base-2^14 digits, the least
\* significant first and the most significant not 0; <<>> is 0.
LimbBits == 14
LimbBase == 2 ^ LimbBits

Limb(a, t) == IF t <= Len(a) THEN a[t] ELSE 0

RECURSIVE NatOfInt(_)
NatOfInt(n) == IF n = 0 THEN <<>> ELSE <<n % LimbBase>> \o NatOfInt(n \div LimbBase)

RECURSIVE NatToInt(_)
NatToInt(a) == IF a = <<>> THEN 0 ELSE a[1] + LimbBase * NatToInt(Tail(a))

RECURSIVE NatNorm(_)
NatNorm(a) ==
    IF a = <<>> THEN <<>>
    ELSE IF a[Len(a)] = 0 THEN NatNorm(SubSeq(a, 1, Len(a) - 1))
    ELSE a

RECURSIVE NatAddFrom(_, _, _, _)
NatAddFrom(a, b, t, carry) ==
    IF t > Len(a) /\ t > Len(b) THEN (IF carry = 0 THEN <<>> ELSE <<carry>>)
    ELSE LET sum == Limb(a, t) + Limb(b, t) + carry
         IN <<sum % LimbBase>> \o NatAddFrom(a, b, t + 1, sum \div LimbBase)
NatAdd(a, b) == NatAddFrom(a, b, 1, 0)

\* a - b for a >= b
RECURSIVE NatSubFrom(_, _, _, _)
NatSubFrom(a, b, t, borrow) ==
    IF t > Len(a) THEN <<>>
    ELSE LET dif == a[t] - Limb(b, t) - borrow
         IN <<dif % LimbBase>> \o NatSubFrom(a, b, t + 1, IF dif < 0 THEN 1 ELSE 0)
NatSub(a, b) == NatNorm(NatSubFrom(a, b, 1, 0))

RECURSIVE NatLessFrom(_, _, _)
NatLessFrom(a, b, t) ==
    IF t = 0 THEN FALSE
    ELSE IF a[t] # b[t] THEN a[t] < b[t]
    ELSE NatLessFrom(a, b, t - 1)
NatLess(a, b) == IF Len(a) # Len(b) THEN Len(a) < Len(b) ELSE NatLessFrom(a, b, Len(a))

\* a * k for 0 <= k <= 2^14
RECURSIVE NatMulFrom(_, _, _, _)
NatMulFrom(a, k, t, carry) ==
    IF t > Len(a) THEN (IF carry = 0 THEN <<>> ELSE <<carry>>)
    ELSE LET prd == a[t] * k + carry
         IN <<prd % LimbBase>> \o NatMulFrom(a, k, t + 1, prd \div LimbBase)
NatMulSmall(a, k) == IF k = 0 THEN <<>> ELSE NatMulFrom(a, k, 1, 0)

NatShiftLimbs(a, n) == IF a = <<>> THEN <<>> ELSE [t \in 1..n |-> 0] \o a

\* a * b for a and b of at most 7 digits, digit by digit: digit k of the
\* product is the sum of the a[t] * b[k + 1 - t] and the carry.
RECURSIVE NatColumn(_, _, _, _)
NatColumn(a, b, k, t) ==
    IF t > Len(a) \/ t > k THEN 0
    ELSE a[t] * Limb(b, k + 1 - t) + NatColumn(a, b, k, t + 1)

RECURSIVE NatMulCols(_, _, _, _)
NatMulCols(a, b, k, carry) ==
    IF k > Len(a) + Len(b) THEN <<>>
    ELSE LET sum == NatColumn(a, b, k, 1) + carry
         IN <<sum % LimbBase>> \o NatMulCols(a, b, k + 1, sum \div LimbBase)
NatMul(a, b) == NatNorm(NatMulCols(a, b, 1, 0))

\* a * 2^n
NatShl(a, n) == NatShiftLimbs(NatMulSmall(a, 2 ^ (n % LimbBits)), n \div LimbBits)

\* floor(a / d) for 1 <= d <= 2^14, from the most significant digit down
RECURSIVE NatDivDown(_, _, _, _, _)
NatDivDown(a, d, t, rem, acc) ==
    IF t = 0 THEN acc
    ELSE LET cur == rem * LimbBase + a[t]
         IN NatDivDown(a, d, t - 1, cur % d, <<cur \div d>> \o acc)
NatDivSmall(a, d) == NatNorm(NatDivDown(a, d, Len(a), 0, <<>>))

RECURSIVE NatModDown(_, _, _, _)
NatModDown(a, d, t, rem) ==
    IF t = 0 THEN rem ELSE NatModDown(a, d, t - 1, (rem * LimbBase + a[t]) % d)
NatModSmall(a, d) == NatModDown(a, d, Len(a), 0)

\* floor(a / 2^n)
NatShr(a, n) ==
    IF n \div LimbBits >= Len(a) THEN <<>>
    ELSE NatDivSmall(SubSeq(a, (n \div LimbBits) + 1, Len(a)), 2 ^ (n % LimbBits))

\* the low n bits of a are all 0
NatLowZero(a, n) ==
    /\ \A t \in 1..Min(Len(a), n \div LimbBits) : a[t] = 0
    /\ Limb(a, (n \div LimbBits) + 1) % (2 ^ (n % LimbBits)) = 0

\* bit n of a (bit 0 is the least significant)
NatBit(a, n) == (Limb(a, (n \div LimbBits) + 1) \div (2 ^ (n % LimbBits))) % 2

RECURSIVE BitLen(_)
BitLen(x) == IF x = 0 THEN 0 ELSE 1 + BitLen(x \div 2)
NatBits(a) == IF a = <<>> THEN 0 ELSE LimbBits * (Len(a) - 1) + BitLen(a[Len(a)])

\* ------------------------------------------------------ binary64 numbers
\* A number is s * m * 2^e with s in {-1, 0, 1} and m a natural number.  A
\* double is such a number with m of exactly 53 bits, or 0.
MantBits == 53
FlZero == [s |-> 0, m |-> <<>>, e |-> 0]

\* The double nearest to s * m * 2^e, a tie going to the even mantissa.
FlRound(s, m, e) ==
    LET len == NatBits(m)
        d == len - MantBits
        q == NatShr(m, d)
        up == /\ NatBit(m, d - 1) = 1
              /\ (~NatLowZero(m, d - 1) \/ NatBit(q, 0) = 1)
        q1 == IF up THEN NatAdd(q, <<1>>) ELSE q
    IN IF len = 0 \/ s = 0 THEN FlZero
       ELSE IF d <= 0 THEN [s |-> s, m |-> NatShl(m, -d), e |-> e + d]
       ELSE IF NatBits(q1) > MantBits THEN [s |-> s, m |-> NatShr(q1, 1), e |-> e + d + 1]
       ELSE [s |-> s, m |-> q1, e |-> e + d]

\* x + y, exactly
ExAdd(x, y) ==
    IF x.s = 0 THEN y
    ELSE IF y.s = 0 THEN x
    ELSE LET e0 == Min(x.e, y.e)
             a == NatShl(x.m, x.e - e0)
             b == NatShl(y.m, y.e - e0)
         IN IF x.s = y.s THEN [s |-> x.s, m |-> NatAdd(a, b), e |-> e0]
            ELSE IF a = b THEN FlZero
            ELSE IF NatLess(a, b) THEN [s |-> y.s, m |-> NatSub(b, a), e |-> e0]
            ELSE [s |-> x.s, m |-> NatSub(a, b), e |-> e0]

ExNeg(x) == [x EXCEPT !.s = -x.s]

Fl(x) == FlRound(x.s, x.m, x.e)
FlAdd(x, y) == Fl(ExAdd(x, y))
FlSub(x, y) == Fl(ExAdd(x, ExNeg(y)))
FlMul(x, y) ==
    IF x.s = 0 \/ y.s = 0 THEN FlZero
    ELSE FlRound(x.s * y.s, NatMul(x.m, y.m), x.e + y.e)

\* float(n) for an integer n
FlInt(n) == FlRound(IF n < 0 THEN -1 ELSE IF n = 0 THEN 0 ELSE 1,
                    NatOfInt(IF n < 0 THEN -n ELSE n), 0)

\* n / d for integers n >= 0 and 0 < d <= 2^14: the quotient to 70 binary
\* places, with one more bit that is 1 when the division is not exact.
FlDivInt(n, d) ==
    LET num == NatShl(NatOfInt(n), 70)
        q == NatDivSmall(num, d)
        sticky == IF NatModSmall(num, d) = 0 THEN 0 ELSE 1
    IN FlRound(IF n = 0 THEN 0 ELSE 1, NatAdd(NatMulSmall(q, 2), NatOfInt(sticky)), -71)

\* Python's round(x): the nearest integer, a tie going to the even one.
round(x) ==
    IF x.s = 0 THEN 0
    ELSE IF x.e >= 0 THEN x.s * NatToInt(NatShl(x.m, x.e))
    ELSE LET ip == NatShr(x.m, -x.e)
             up == /\ NatBit(x.m, -x.e - 1) = 1
                   /\ (~NatLowZero(x.m, -x.e - 1) \/ NatBit(ip, 0) = 1)
         IN x.s * (NatToInt(ip) + (IF up THEN 1 ELSE 0))

\* ----------------------------------------------------------------- kernels
\* 1/den * np.array(rows): the double 1/den times every entry.
Scaled(den, rows) ==
    <<>> \o [r \in 1..Len(rows) |->
               <<>> \o [c \in 1..Len(rows[r]) |->
                          FlMul(FlDivInt(1, den), FlInt(rows[r][c]))]]

\* Mutants of floyd_steinberg: 1/8 for 1/16; the first row mirrored.
floyd_steinberg_eighths == Scaled(8, << <<0, 0, 7>>, <<3, 5, 1>> >>)
floyd_steinberg_mirrored == Scaled(16, << <<7, 0, 0>>, <<3, 5, 1>> >>)
floyd_steinberg == Scaled(16, << <<0, 0, 7>>, <<3, 5, 1>> >>)
stucki == Scaled(42, << <<0, 0, 0, 8, 4>>, <<2, 4, 8, 4, 2>>, <<1, 2, 4, 2, 1>> >>)
atkinson == Scaled(8, << <<0, 0, 0, 1, 1>>, <<0, 1, 1, 1, 0>>, <<0, 0, 1, 0, 0>> >>)
\* A matrix argument with an even number of columns (none is shipped).
even_matrix == Scaled(2, << <<0, 0>>, <<1, 1>> >>)

Shipped == {"floyd_steinberg", "stucki", "atkinson"}
KernelNames == Shipped \cup {"even_matrix"}
Kernel(name) ==
    CASE name = "floyd_steinberg" -> floyd_steinberg
      [] name = "stucki" -> stucki
      [] name = "atkinson" -> atkinson
      [] name = "even_matrix" -> even_matrix

MRows(m) == Len(m)
MCols(m) == Len(m[1])
\* mid = int(matrix.shape[1] / 2)
Mid(m) == MCols(m) \div 2

\* ------------------------------------------------------------------ dither
\* A buffer of shape <<hh, ww>> is the sequence of its samples in row-major
\* order (the array's memory order): px[i, j] is buf[Idx(ww, i, j)].
Shapes == {s \in (1..MaxH) \X (1..MaxW) : s[1] * s[2] <= MaxPixels}
Idx(ww, i, j) == i * ww + j + 1
RowOf(ww, t) == (t - 1) \div ww
ColOf(ww, t) == (t - 1) % ww

\* px = px / 255
RECURSIVE NormalizeFrom(_, _)
NormalizeFrom(buf, t) ==
    IF t > Len(buf) THEN <<>>
    ELSE <<FlDivInt(buf[t], 255)>> \o NormalizeFrom(buf, t + 1)
Normalize(buf) == NormalizeFrom(buf, 1)

loj(m, j) == Max(0, j - Mid(m))
hij(m, ww, j) == Min(ww, j + Mid(m) + 1)
hii(m, hh, i) == Min(hh, i + MRows(m))

\* matrix[0:hii-i, mid+loj-j:mid+hij-j]: a slice stops at the matrix's edge.
MStart(m, j) == Mid(m) + loj(m, j) - j
MStop(m, ww, j) == Min(MCols(m), Mid(m) + hij(m, ww, j) - j)
MWidth(m, ww, j) == MStop(m, ww, j) - MStart(m, j)
PWidth(m, ww, j) == hij(m, ww, j) - loj(m, j)

\* The in-place += broadcasts the matrix slice over the px slice: the
\* widths must agree, or the matrix slice must be one column wide.
Broadcasts(m, ww, j) == MWidth(m, ww, j) = PWidth(m, ww, j) \/ MWidth(m, ww, j) = 1

\* Mutant of MCol: the matrix slice taken from column 0.
MCol_unclipped(m, ww, j, c) == c - loj(m, j)

\* The column of the matrix that is added to column c of px.
MCol(m, ww, j, c) ==
    IF MWidth(m, ww, j) = PWidth(m, ww, j)
    THEN MStart(m, j) + (c - loj(m, j))
    ELSE MStart(m, j)

\* px[i:hii, loj:hij] contains px[r, c]
InWindow(m, hh, ww, i, j, r, c) ==
    /\ r >= i /\ r < hii(m, hh, i)
    /\ c >= loj(m, j) /\ c < hij(m, ww, j)

\* err * matrix: the array of the products err * matrix[r, c].
Products(err, m) ==
    <<>> \o [r \in 1..MRows(m) |->
               <<>> \o [c \in 1..MCols(m) |-> FlMul(err, m[r][c])]]

\* (err * matrix)[r, c]  (0-based r, c)
Weighted(prod, r, c) == prod[r + 1][c + 1]

\* px[i, j] = round(old); err = old - px[i, j]
Quantized(buf, ww, i, j) == round(buf[Idx(ww, i, j)])
Err(buf, ww, i, j) == FlSub(buf[Idx(ww, i, j)], FlInt(Quantized(buf, ww, i, j)))

\* The buffer after line 57 only.
Rounded(buf, ww, i, j) ==
    [buf EXCEPT ![Idx(ww, i, j)] = FlInt(Quantized(buf, ww, i, j))]

\* Line 62 on the buffer b1, which line 57 has made.
Added(b1, prod, m, hh, ww, i, j) ==
    <<>> \o [t \in 1..Len(b1) |->
               IF InWindow(m, hh, ww, i, j, RowOf(ww, t), ColOf(ww, t))
               THEN FlAdd(b1[t],
                          Weighted(prod, RowOf(ww, t) - i, MCol(m, ww, j, ColOf(ww, t))))
               ELSE b1[t]]

\* The buffer after lines 56-62 for pixel (i, j).
Diffused(buf, m, hh, ww, i, j) ==
    Added(Rounded(buf, ww, i, j), Products(Err(buf, ww, i, j), m), m, hh, ww, i, j)

\* The exact sum of the numbers f[1], ..., f[n].
RECURSIVE ExSum(_, _)
ExSum(f, n) == IF n = 0 THEN FlZero ELSE ExAdd(ExSum(f, n - 1), f[n])

\* What line 62 adds to px (prod is err * matrix), summed exactly over the
\* cells of the window.
AddedIn(prod, m, hh, ww, i, j) ==
    ExSum([t \in 1..(hh * ww) |->
             IF InWindow(m, hh, ww, i, j, RowOf(ww, t), ColOf(ww, t))
             THEN Weighted(prod, RowOf(ww, t) - i, MCol(m, ww, j, ColOf(ww, t)))
             ELSE FlZero],
          hh * ww)

\* (err * matrix)[r, c] summed exactly over the cells of the matrix whose
\* pixel (i + r, j + c - mid) is not in the buffer.
LostOut(prod, m, hh, ww, i, j) ==
    ExSum([t \in 1..(MRows(m) * MCols(m)) |->
             IF \/ i + RowOf(MCols(m), t) >= hh
                \/ j + ColOf(MCols(m), t) - Mid(m) < 0
                \/ j + ColOf(MCols(m), t) - Mid(m) >= ww
             THEN Weighted(prod, RowOf(MCols(m), t), ColOf(MCols(m), t))
             ELSE FlZero],
          MRows(m) * MCols(m))

\* px * 255
RECURSIVE TimesFrom(_, _)
TimesFrom(buf, t) ==
    IF t > Len(buf) THEN <<>>
    ELSE <<FlMul(buf[t], FlInt(255))>> \o TimesFrom(buf, t + 1)
Times255(buf) == TimesFrom(buf, 1)

DitherInit ==
    /\ matrix \in KernelNames
    /\ weights = Kernel(matrix)
    /\ \/ shape \in Shapes /\ px_in \in [1..(shape[1] * shape[2]) -> Samples]
       \/ \E b \in TieBuffers : shape = b[1] /\ px_in = b[2]
    /\ dpx = px_in
    /\ di = 0 /\ dj = 0 /\ dpc = "call" /\ dret = <<>>
    /\ sumErr = FlZero /\ sumIn = FlZero /\ sumOut = FlZero
    \* dither_bayer and main are not running
    /\ thresholds = "bayer" /\ bshape = <<1, 1>>
    /\ bpx = <<0>> /\ o_px = <<0>> /\ bdone = {1}
    /\ im_bytes = <<>> /\ im_bytearray = <<>> /\ pk = 0 /\ ppc = "idle"
    /\ written = <<>>

\* Lines 51-52: px = px / 255 (a new array; the caller's buffer is kept).
DitherEnter ==
    /\ dpc = "call"
    /\ dpx' = Normalize(px_in)
    /\ dpc' = "loop"
    /\ UNCHANGED <<matrix, weights, shape, px_in, di, dj, dret, sumErr, sumIn, sumOut, bvars, pvars>>

\* Lines 56-62 for the pixel (di, dj), when the += succeeds.
DitherPixel ==
    LET m == weights
        hh == shape[1]
        ww == shape[2]
    IN /\ dpc = "loop" /\ di < hh
       /\ Broadcasts(m, ww, dj)
       /\ \E err \in {Err(dpx, ww, di, dj)} :
          \E prod \in {Products(err, m)} :
             /\ dpx' = Added(Rounded(dpx, ww, di, dj), prod, m, hh, ww, di, dj)
             /\ sumErr' = ExAdd(sumErr, err)
             /\ sumIn' = ExAdd(sumIn, AddedIn(prod, m, hh, ww, di, dj))
             /\ sumOut' = ExAdd(sumOut, LostOut(prod, m, hh, ww, di, dj))
       /\ IF dj + 1 < ww THEN di' = di /\ dj' = dj + 1
                         ELSE di' = di + 1 /\ dj' = 0
       /\ UNCHANGED <<matrix, weights, shape, px_in, dpc, dret, bvars, pvars>>

\* Lines 56-62 for the pixel (di, dj), when the shapes of line 62 do not
\* broadcast: the pixel has been rounded, then ValueError is raised.
DitherRaise ==
    LET m == weights
    IN /\ dpc = "loop" /\ di < shape[1]
       /\ ~Broadcasts(m, shape[2], dj)
       /\ dpx' = Rounded(dpx, shape[2], di, dj)
       /\ dpc' = "error"
       /\ UNCHANGED <<matrix, weights, shape, px_in, di, dj, dret, sumErr, sumIn, sumOut, bvars, pvars>>

\* Line 64: return px * 255.
DitherReturn ==
    /\ dpc = "loop" /\ di >= shape[1]
    /\ dret' = Times255(dpx)
    /\ dpc' = "done"
    /\ UNCHANGED <<matrix, weights, shape, px_in, dpx, di, dj, sumErr, sumIn, sumOut, bvars, pvars>>

DitherNext == DitherEnter \/ DitherPixel \/ DitherRaise \/ DitherReturn

\* The whole call as a function of its arguments: the loop of lines 54-62
\* from pixel (i, j) on, then the returned buffer.
RECURSIVE DitherFrom(_, _, _, _, _, _)
DitherFrom(buf, m, hh, ww, i, j) ==
    IF i >= hh THEN Times255(buf)
    ELSE IF ~Broadcasts(m, ww, j) THEN "ValueError"
    ELSE DitherFrom(Diffused(buf, m, hh, ww, i, j), m, hh, ww,
                    IF j + 1 < ww THEN i ELSE i + 1,
                    IF j + 1 < ww THEN j + 1 ELSE 0)

dither(buf, m, hh, ww) == DitherFrom(Normalize(buf), m, hh, ww, 0, 0)

\* ------------------------------------------------------------ dither_bayer
\* bayer = 1/64 * np.array(rows): every entry k/64 is a double, exactly, and
\* so is every integer sample, so px > k/64 is decided by px * 64 > k.
bayer == [den |-> 64,
          rows |-> << <<0, 32, 8, 40, 2, 34, 10, 42>>,
                      <<48, 16, 56, 24, 50, 18, 58, 26>>,
                      <<12, 44, 4, 36, 14, 46, 6, 38>>,
                      <<60, 28, 52, 20, 62, 30, 54, 22>>,
                      <<3, 35, 11, 43, 1, 33, 9, 41>>,
                      <<51, 19, 59, 27, 49, 17, 57, 25>>,
                      <<15, 47, 7, 39, 13, 45, 5, 37>>,
                      <<63, 31, 55, 23, 61, 29, 53, 21>> >>]
\* The 2x2 threshold matrix of the documented scenario.
golden_thresholds == [den |-> 1, rows |-> << <<0, 128>>, <<64, 192>> >>]
golden_px == <<10, 200, 50, 180>>

ThresholdNames == {"bayer", "golden_thresholds"}
Thresholds(name) ==
    CASE name = "bayer" -> bayer
      [] name = "golden_thresholds" -> golden_thresholds

\* Mutants of Exceeds: < for >; >= for >.
Exceeds_less(v, thr, x, y) ==
    v * thr.den < thr.rows[(x % Len(thr.rows)) + 1][(y % Len(thr.rows)) + 1]
Exceeds_ge(v, thr, x, y) ==
    v * thr.den >= thr.rows[(x % Len(thr.rows)) + 1][(y % Len(thr.rows)) + 1]

\* px[x, y] > thr[x % len(thr), y % len(thr)], thr = 1/den * rows
Exceeds(v, thr, x, y) ==
    v * thr.den > thr.rows[(x % Len(thr.rows)) + 1][(y % Len(thr.rows)) + 1]

\* Mutant of BayerPixel: the output of the pixel before is added to the
\* sample, as an error carried from pixel to pixel would be.
BayerPixel_carry(buf, out, thr, ww, x, y) ==
    [out EXCEPT ![Idx(ww, x, y)] =
        IF Exceeds(buf[Idx(ww, x, y)] + out[Max(1, Idx(ww, x, y) - 1)], thr, x, y)
        THEN 255 ELSE 0]

\* Lines 79-82 for the pixel (x, y): the output buffer after the assignment.
BayerPixel(buf, out, thr, ww, x, y) ==
    [out EXCEPT ![Idx(ww, x, y)] =
        IF Exceeds(buf[Idx(ww, x, y)], thr, x, y) THEN 255 ELSE 0]

\* o_px = np.zeros(px.shape)
Zeros(buf) == [t \in 1..Len(buf) |-> 0]

\* Lines 77-84: the row-major scan from pixel (x, y) on.
RECURSIVE BayerFrom(_, _, _, _, _, _, _)
BayerFrom(buf, out, thr, hh, ww, x, y) ==
    IF x >= hh THEN out
    ELSE BayerFrom(buf, BayerPixel(buf, out, thr, ww, x, y), thr, hh, ww,
                   IF y + 1 < ww THEN x ELSE x + 1,
                   IF y + 1 < ww THEN y + 1 ELSE 0)

\* dither_bayer with the threshold matrix as a parameter.
Ordered(buf, thr, hh, ww) == BayerFrom(buf, Zeros(buf), thr, hh, ww, 0, 0)

dither_bayer(buf, hh, ww) == Ordered(buf, bayer, hh, ww)

BayerInit ==
    /\ thresholds \in ThresholdNames
    /\ bshape \in Shapes
    /\ \/ bpx \in [1..(bshape[1] * bshape[2]) -> BayerSamples]
       \/ bshape = <<2, 2>> /\ bpx = golden_px
    /\ o_px = Zeros(bpx)
    /\ bdone = {}
    \* dither and main are not running
    /\ matrix = "floyd_steinberg" /\ weights = <<>> /\ shape = <<1, 1>>
    /\ px_in = <<0>> /\ dpx = <<0>>
    /\ di = 0 /\ dj = 0 /\ dpc = "idle" /\ dret = <<>>
    /\ sumErr = FlZero /\ sumIn = FlZero /\ sumOut = FlZero
    /\ im_bytes = <<>> /\ im_bytearray = <<>> /\ pk = 0 /\ ppc = "idle"
    /\ written = <<>>

\* One iteration of the loop body, for any pixel not yet processed.
BayerStep ==
    /\ \E t \in DOMAIN bpx \ bdone :
          /\ o_px' = BayerPixel(bpx, o_px, Thresholds(thresholds), bshape[2],
                                RowOf(bshape[2], t), ColOf(bshape[2], t))
          /\ bdone' = bdone \cup {t}
    /\ UNCHANGED <<thresholds, bshape, bpx, dvars, pvars>>

BayerNext == BayerStep

\* -------------------------------------------------------- main: 2-bit pack
\* Mutant of Xor3: no inversion.
Xor3_none(x) == x

\* x ^ 3 for a byte x.
Xor3(x) == (x \div 4) * 4 + (3 - (x % 4))

\* Mutant of Merge: c << 1 for c << 2.
Merge_shift(a, b, c, d) == a * 64 + b * 16 + c * 2 + d

\* (a << 6) + (b << 4) + (c << 2) + d
Merge(a, b, c, d) == a * 64 + b * 16 + c * 4 + d

PackInit ==
    /\ \E n \in 0..MaxLen : im_bytes \in [1..n -> 0..3]
    /\ im_bytearray = <<>> /\ pk = 0 /\ ppc = "loop"
    /\ written = <<>>
    \* dither and dither_bayer are not running
    /\ matrix = "floyd_steinberg" /\ weights = <<>> /\ shape = <<1, 1>>
    /\ px_in = <<0>> /\ dpx = <<0>>
    /\ di = 0 /\ dj = 0 /\ dpc = "idle" /\ dret = <<>>
    /\ sumErr = FlZero /\ sumIn = FlZero /\ sumOut = FlZero
    /\ thresholds = "bayer" /\ bshape = <<1, 1>>
    /\ bpx = <<0>> /\ o_px = <<0>> /\ bdone = {1}

\* Lines 203-207 for one k of range(0, len(im_bytes), 4); im_bytes[k] is
\* im_bytes[pk + 1] here.
PackGroup ==
    /\ ppc = "loop" /\ pk < Len(im_bytes)
    /\ pk + 3 < Len(im_bytes)
    /\ LET byte == Merge(Xor3(im_bytes[pk + 1]), Xor3(im_bytes[pk + 2]),
                         Xor3(im_bytes[pk + 3]), Xor3(im_bytes[pk + 4]))
       IN IF byte \in 0..255
          THEN /\ im_bytearray' = Append(im_bytearray, byte)
               /\ pk' = pk + 4
               /\ ppc' = ppc
          ELSE /\ ppc' = "error"
               /\ UNCHANGED <<im_bytearray, pk>>
    /\ UNCHANGED <<im_bytes, written, dvars, bvars>>

\* Mutant of PackIndexError: the partial group is dropped and the bytes
\* are written.
PackDropTail ==
    /\ ppc = "loop" /\ pk < Len(im_bytes)
    /\ pk + 3 >= Len(im_bytes)
    /\ written' = im_bytearray
    /\ ppc' = "done"
    /\ UNCHANGED <<im_bytes, im_bytearray, pk, dvars, bvars>>

\* One of im_bytes[k+1], [k+2], [k+3] is past the end: IndexError.
PackIndexError ==
    /\ ppc = "loop" /\ pk < Len(im_bytes)
    /\ pk + 3 >= Len(im_bytes)
    /\ ppc' = "error"
    /\ UNCHANGED <<im_bytes, im_bytearray, pk, written, dvars, bvars>>

\* Lines 209-210: the loop is over and the bytes are written.
PackWrite ==
    /\ ppc = "loop" /\ pk >= Len(im_bytes)
    /\ written' = im_bytearray
    /\ ppc' = "done"
    /\ UNCHANGED <<im_bytes, im_bytearray, pk, dvars, bvars>>

PackNext == PackGroup \/ PackIndexError \/ PackWrite

\* ---------------------------------------------------------- specifications
SpecDither == DitherInit /\ [][DitherNext]_vars

SpecBayer == BayerInit /\ [][BayerNext]_vars

SpecPack == PackInit /\ [][PackNext]_vars

\* ================================================================== claims
\* The index of the pixel (di, dj) the loop of dither is at; past the last
\* index when the loop is over.
Cur == Idx(shape[2], di, dj)

\* Bitwise operators on naturals, by their bits.
RECURSIVE BitOr(_, _)
BitOr(x, y) ==
    IF x = 0 THEN y
    ELSE IF y = 0 THEN x
    ELSE 2 * BitOr(x \div 2, y \div 2) + (IF x % 2 = 1 \/ y % 2 = 1 THEN 1 ELSE 0)

RECURSIVE BitXor(_, _)
BitXor(x, y) ==
    IF x = 0 THEN y
    ELSE IF y = 0 THEN x
    ELSE 2 * BitXor(x \div 2, y \div 2) + (IF x % 2 # y % 2 THEN 1 ELSE 0)

Shl(x, n) == x * 2 ^ n

\* The byte the documented layout gives the four values v[t+1..t+4].
LayoutByte(v, t) ==
    BitOr(BitOr(BitOr(Shl(BitXor(v[t + 1], 3), 6), Shl(BitXor(v[t + 2], 3), 4)),
                Shl(BitXor(v[t + 3], 3), 2)),
          BitXor(v[t + 4], 3))

\* The four 2-bit fields of a byte, most significant first, each XOR 3.
UnpackByte(byte) ==
    << BitXor((byte \div 64) % 4, 3), BitXor((byte \div 16) % 4, 3),
       BitXor((byte \div 4) % 4, 3), BitXor(byte % 4, 3) >>

RECURSIVE Unpack(_)
Unpack(bytes) ==
    IF bytes = <<>> THEN <<>> ELSE UnpackByte(Head(bytes)) \o Unpack(Tail(bytes))

\* The doubles 0.0, 1.0 and 255.0.
FlOne == FlInt(1)
Fl255 == FlInt(255)

\* C1: with a shipped kernel, every pixel dither has visited holds 0.0 or
\* 1.0, whatever error was diffused into it before its visit, and every
\* sample of the returned buffer is 0.0 or 255.0.
C1_Bilevel ==
    (matrix \in Shipped /\ dpc \in {"loop", "done"}) =>
        /\ \A t \in 1..Len(dpx) : t < Cur => dpx[t] \in {FlZero, FlOne}
        /\ dpc = "done" => \A t \in 1..Len(dret) : dret[t] \in {FlZero, Fl255}

\* C1 witness: a returned buffer in which diffused error has pushed a pixel
\* above one half although its own sample is below one half, and another
\* below although its own sample is above.
C1_Witness ==
    /\ dpc = "done" /\ matrix \in Shipped
    /\ \E t \in 1..Len(dret) : px_in[t] < 128 /\ dret[t] = Fl255
    /\ \E t \in 1..Len(dret) : px_in[t] >= 128 /\ dret[t] = FlZero

\* C2: the bytes appended so far are, in order, the documented layout of the
\* groups of four values read so far, each in 0..255; when the loop ends on
\* n values (n a multiple of 4) exactly n/4 bytes are written, and the group
\* 0,1,2,3 gives 0xE4 = 228.
C2_Layout ==
    /\ \A b \in 1..Len(im_bytearray) :
          /\ im_bytearray[b] = LayoutByte(im_bytes, 4 * (b - 1))
          /\ im_bytearray[b] \in 0..255
    /\ ppc \in {"loop", "error"} => 4 * Len(im_bytearray) = pk
    /\ ppc = "done" =>
          /\ written = im_bytearray
          /\ 4 * Len(written) = Len(im_bytes)
    /\ (ppc = "done" /\ im_bytes = <<0, 1, 2, 3>>) => written = <<228>>

\* C2 witness: the group 0,1,2,3 has been packed and written.
C2_Witness == ppc = "done" /\ im_bytes = <<0, 1, 2, 3>> /\ written = <<228>>

\* C3 as stated: the loop over a sequence whose length is not a multiple of
\* 4 raises no error.
C3_Original == Len(im_bytes) % 4 # 0 => ppc # "error"

\* C3 amended: on a sequence whose length n is not a multiple of 4 the loop
\* never completes and nothing is written; it stops with an error at the
\* partial group, after floor(n/4) bytes were appended from the first
\* 4*floor(n/4) values.
C3_IndexError ==
    Len(im_bytes) % 4 # 0 =>
        /\ ppc # "done" /\ written = <<>>
        /\ ppc = "loop" => pk < Len(im_bytes)
        /\ ppc = "error" =>
              /\ pk = 4 * (Len(im_bytes) \div 4)
              /\ Len(im_bytearray) = Len(im_bytes) \div 4
              /\ \A b \in 1..Len(im_bytearray) :
                    im_bytearray[b] = LayoutByte(im_bytes, 4 * (b - 1))

\* C3 witness: six values, one byte appended, then the error.
C3_Witness == ppc = "error" /\ Len(im_bytes) = 6 /\ Len(im_bytearray) = 1

\* C4 as stated: the documented 2x2 scenario yields [[0, 255], [0, 0]].
C4_Original ==
    (thresholds = "golden_thresholds" /\ bshape = <<2, 2>> /\ bpx = golden_px
       /\ bdone = DOMAIN bpx) => o_px = <<0, 255, 0, 0>>

\* C4 amended: the documented 2x2 scenario yields [[255, 255], [0, 0]]
\* (10 is strictly greater than the threshold 0 at position (0, 0)).
C4_Golden ==
    (thresholds = "golden_thresholds" /\ bshape = <<2, 2>> /\ bpx = golden_px
       /\ bdone = DOMAIN bpx) => o_px = <<255, 255, 0, 0>>

\* C4 witness: the scenario has been run to its end.
C4_Witness ==
    /\ thresholds = "golden_thresholds" /\ bshape = <<2, 2>> /\ bpx = golden_px
    /\ bdone = DOMAIN bpx

BiLevel(buf) == \A t \in 1..Len(buf) : buf[t] \in {0, 255}

\* C5: dither_bayer (bayer matrix) of a buffer of 0s and 255s is that
\* buffer, and so is dither_bayer of the result.
C5_Idempotent ==
    (thresholds = "bayer" /\ BiLevel(bpx) /\ bdone = DOMAIN bpx) =>
        /\ o_px = bpx
        /\ dither_bayer(o_px, bshape[1], bshape[2]) = o_px

\* C5 witness: a processed bilevel buffer with a 0 at (0, 0), where the
\* threshold is 0, and a 255 elsewhere.
C5_Witness ==
    /\ thresholds = "bayer" /\ BiLevel(bpx) /\ bdone = DOMAIN bpx
    /\ bpx[1] = 0 /\ \E t \in 1..Len(bpx) : bpx[t] = 255

\* C6: in whatever order the pixels are processed, every processed position
\* holds what the row-major scan writes there and every other position is
\* still 0; so the final buffer is that of the row-major scan.
C6_OrderIndependent ==
    LET scan == Ordered(bpx, Thresholds(thresholds), bshape[1], bshape[2])
    IN \A t \in 1..Len(bpx) : o_px[t] = IF t \in bdone THEN scan[t] ELSE 0

\* C6 witness: the last pixel was processed (to 255) before the first.
C6_Witness ==
    /\ Len(bpx) >= 2 /\ Len(bpx) \in bdone /\ 1 \notin bdone
    /\ o_px[Len(bpx)] = 255

\* C7: unpacking the written bytes gives back the values that were packed.
C7_RoundTrip == ppc = "done" => Unpack(written) = im_bytes

\* C7 witness: two groups holding all four values were packed and written.
C7_Witness ==
    /\ ppc = "done" /\ Len(im_bytes) = 8
    /\ {im_bytes[t] : t \in 1..4} = 0..3
    /\ im_bytes[5] # im_bytes[1]

\* C8: with a matrix of an even number of columns dither rounds no pixel,
\* diffuses nothing and returns nothing.
C8_EvenRejected ==
    matrix = "even_matrix" =>
        /\ dpc # "done"
        /\ di = 0 /\ dj = 0
        /\ dpc \in {"loop", "error"} => dpx = Normalize(px_in)

\* The total weight of a shipped kernel as a fraction <<numerator,
\* denominator>>: the sum of the entries of its array over its factor's
\* denominator.
TotalWeight(name) ==
    CASE name = "floyd_steinberg" -> <<16, 16>>
      [] name = "stucki" -> <<42, 42>>
      [] name = "atkinson" -> <<6, 8>>

\* x * k, exactly, for an integer 0 <= k <= 2^14
ExTimes(x, k) == IF k = 0 \/ x.s = 0 THEN FlZero ELSE [x EXCEPT !.m = NatMulSmall(x.m, k)]
ExAbs(x) == [x EXCEPT !.s = x.s * x.s]
\* x <= y
ExLeq(x, y) == ExAdd(y, ExNeg(x)).s >= 0

\* total weight * summed rounding error - added in bounds - boundary loss,
\* times the denominator of the total weight.
Imbalance ==
    ExAdd(ExTimes(sumErr, TotalWeight(matrix)[1]),
          ExNeg(ExTimes(ExAdd(sumIn, sumOut), TotalWeight(matrix)[2])))

\* C9 as stated: over a complete run with a shipped kernel, the summed
\* rounding error minus what was added in bounds equals the boundary loss.
C9_Original ==
    (dpc = "done" /\ matrix \in Shipped) =>
        ExAdd(sumErr, ExNeg(ExAdd(sumIn, sumOut))).s = 0

\* C9 amended: the summed rounding error times the kernel's total weight (1
\* for floyd_steinberg and stucki, 6/8 for atkinson), minus what was added in
\* bounds, equals the boundary loss to within 2^-53 for every pixel visited
\* (every product err * weight is rounded to a double), and exactly for
\* atkinson, whose weights are powers of two.
C9_Conservation ==
    (dpc \in {"loop", "done"} /\ matrix \in Shipped) =>
        /\ ExLeq(ExAbs(Imbalance),
                 ExTimes([s |-> 1, m |-> <<1>>, e |-> -53],
                         (Cur - 1) * TotalWeight(matrix)[2]))
        /\ matrix = "atkinson" => Imbalance.s = 0

\* C9 witness: a complete atkinson run with error added in bounds and lost.
C9_Witness ==
    /\ dpc = "done" /\ matrix = "atkinson"
    /\ sumErr.s # 0 /\ sumIn.s # 0 /\ sumOut.s # 0

\* C10: a step of dither with a shipped kernel leaves every pixel visited
\* before unchanged, leaves the visited pixel at its rounded value, changes
\* later pixels only inside the clipped window, and the returned buffer is
\* the buffer of the rounded values.
C10_Frame ==
    [][(matrix \in Shipped /\ dpc = "loop") =>
          /\ \A t \in 1..Len(dpx) :
                /\ t < Cur => dpx'[t] = dpx[t]
                /\ (t = Cur /\ dpc' = "loop") =>
                      dpx'[t] = FlInt(Quantized(dpx, shape[2], di, dj))
                /\ (t > Cur /\ dpx'[t] # dpx[t]) =>
                      InWindow(weights, shape[1], shape[2], di, dj,
                               RowOf(shape[2], t), ColOf(shape[2], t))
          /\ dpc' = "done" => dret' = Times255(dpx)]_vars

\* C10 witness: a visit in the second row is about to happen, the pixel
\* there has received error, and the first row holds rounded values.
C10_Witness ==
    /\ dpc = "loop" /\ matrix \in Shipped /\ di = 1 /\ dj = 1
    /\ dpx[Cur] # FlDivInt(px_in[Cur], 255)
    /\ \A t \in 1..(Cur - 1) : dpx[t] \in {FlZero, FlOne}
====
